---- MODULE Spec2Model ----
(***************************************************************************)
(* sk::CachedResource<int, Traits> (src/src/cached_resource.hpp): a        *)
(* history of layers (m_data) with a sparse cache of cumulative folds      *)
(* (m_cache), two iterators marking the valid prefix of each (m_dataLimit, *)
(* m_cacheLimit) and the m_underUndo flag.                                 *)
(*                                                                         *)
(* Iterators are modelled by their position: an iterator it of a deque d   *)
(* is the integer std::distance(d.begin(), it).  A position larger than    *)
(* the deque's size is an iterator moved past end(); the code can produce  *)
(* one.  Undefined behaviour is a choice between the outcomes a build can  *)
(* give: a read outside a deque yields any value of Junk or stops the      *)
(* program, and an operation that cannot complete (pop_back() on an empty  *)
(* deque) stops it.  A stopped program is the state fault = TRUE, after    *)
(* which nothing more is modelled.                                         *)
(*                                                                         *)
(* m_dataLimit and m_cacheLimit are value-initialised (singular) until the *)
(* first emplaceBack assigns them.  m_cacheLimit is never read while       *)
(* m_cache is empty (getNumCaches, redo), but m_dataLimit is: using it     *)
(* while m_data is empty either behaves as position 0 (builds where a      *)
(* value-initialised deque iterator equals begin() of an empty deque) or   *)
(* stops the program (libstdc++: undo() on a new object dereferences a     *)
(* null map pointer).                                                      *)
(*                                                                         *)
(* T is int and m_function is the adder of tests/cached_resource_test.cpp. *)
(***************************************************************************)
EXTENDS Integers, Sequences, FiniteSets, TLC

\* Bounds of the exploration: the gaps tried, and how many layers more than
\* two full gaps of them a history may hold.
MaxGap == 3
MaxExtra == 1

\* The layers a caller may push, and what a read outside a deque may yield.
Layers == {1, 2}
Junk == {0, 4}

VARIABLES
    m_cacheGap,   \* Traits::cacheGap, fixed at construction
    m_data,       \* history
    m_cache,      \* checkpoints
    m_dataLimit,  \* position of the iterator m_dataLimit in m_data
    m_cacheLimit, \* position of the iterator m_cacheLimit in m_cache
    m_underUndo,
    fault,        \* an operation ran into undefined behaviour it cannot finish
    op,           \* the last operation called
    ret,          \* what it returned: [b |-> bool result, v |-> <<value>> or <<>>]
    pre,          \* the cursors before the last undo(): [h, k]
    phase         \* which call pattern the calls so far form (see PhaseAfter)

vars == <<m_cacheGap, m_data, m_cache, m_dataLimit, m_cacheLimit, m_underUndo,
          fault, op, ret, pre, phase>>

Min(a, b) == IF a < b THEN a ELSE b

\* The longest history explored: two checkpoints' worth of layers and MaxExtra more.
LenBound == 2 * m_cacheGap + MaxExtra

\* auto adder = [](int& dest, int& src) -> void { dest += src; };
m_function(dest, src) == dest + src

\* for(it = d.begin() + from; it != d.begin() + to; ++it) m_function(acc, *it)
\* over positions from..to-1 that all lie inside d.
RECURSIVE FoldRange(_, _, _, _)
FoldRange(acc, d, from, to) ==
    IF from >= to THEN acc
    ELSE FoldRange(m_function(acc, d[from + 1]), d, from + 1, to)

\* The reference result: the fold of d's first n elements into acc.
FoldPrefix(acc, d, n) == FoldRange(acc, d, 0, n)

\* getNumCaches(): the spec's checkpointCursor.
NumCachesOf(cache, limit) == IF cache = <<>> THEN 0 ELSE limit
getNumCaches == NumCachesOf(m_cache, m_cacheLimit)

noCaches == getNumCaches <= 0

\* The spec's historyCursor.
historyCursor == m_dataLimit
checkpointCursor == getNumCaches

\* getIteratorPastCache(), as a position in m_data.
IteratorPastCacheOf(cache, limit, dataLimit) ==
    Min(dataLimit, NumCachesOf(cache, limit) * m_cacheGap)
getIteratorPastCache == IteratorPastCacheOf(m_cache, m_cacheLimit, m_dataLimit)

NoRet == [b |-> FALSE, v |-> <<>>]
NoPre == [h |-> 0, k |-> 0]

Init ==
    /\ m_cacheGap \in 1..MaxGap
    /\ m_data = <<>>
    /\ m_cache = <<>>
    /\ m_dataLimit = 0
    /\ m_cacheLimit = 0
    /\ m_underUndo = FALSE
    /\ fault = FALSE
    /\ op = "new"
    /\ ret = NoRet
    /\ pre = NoPre
    /\ phase = "appends"


\* The call patterns the scenario claims speak of.  o is the operation being
\* called and b its boolean result; the queries leave the pattern alone.
\*   "appends": only emplaceBack so far          (A^N)
\*   "undos":   then undos that all returned true (A^N U^k, k >= 1)
\*   "bottom":  then undos, the last returned false
\*   "redos":   then, from historyCursor = 0, redos
\*   "trunc":   A^N U^k with 1 <= k < N, one emplaceBack, then redos
PhaseAfter(o, b) ==
    CASE o = "emplaceBack" ->
            IF phase = "appends" THEN "appends"
            ELSE IF phase = "undos" /\ m_dataLimit >= 1 THEN "trunc"
            ELSE "other"
      [] o = "undo" ->
            IF phase \in {"appends", "undos"} /\ b THEN "undos"
            ELSE IF phase \in {"appends", "undos", "bottom"} /\ ~b THEN "bottom"
            ELSE "other"
      [] o = "redo" ->
            IF phase = "trunc" THEN "trunc"
            ELSE IF phase = "bottom" THEN "redos"
            ELSE IF phase = "undos" /\ m_dataLimit = 0 THEN "redos"
            ELSE IF phase = "redos" /\ m_underUndo THEN "redos"
            ELSE "other"
      [] OTHER -> phase

\* clearUndo() with its last line left out: a slip the Truncate-on-append
\* claim must notice.
clearUndoKeepsFlag ==
    [ok    |-> /\ m_dataLimit <= Len(m_data)
               /\ (noCaches \/ m_cacheLimit <= Len(m_cache)),
     data  |-> SubSeq(m_data, 1, Min(m_dataLimit, Len(m_data))),
     cache |-> IF noCaches THEN <<>>
               ELSE SubSeq(m_cache, 1, Min(m_cacheLimit, Len(m_cache))),
     underUndo |-> m_underUndo]

\* clearUndo(): [ok, data, cache, underUndo].  ok is FALSE when a loop pops
\* from a deque that is already shorter than its limit (pop_back() on an empty
\* deque).
clearUndo ==
    [ok    |-> /\ m_dataLimit <= Len(m_data)
               /\ (noCaches \/ m_cacheLimit <= Len(m_cache)),
     data  |-> SubSeq(m_data, 1, Min(m_dataLimit, Len(m_data))),
     cache |-> IF noCaches THEN <<>>
               ELSE SubSeq(m_cache, 1, Min(m_cacheLimit, Len(m_cache))),
     underUndo |-> FALSE]

Faulted == [fault |-> TRUE, cache |-> <<>>, limit |-> 0]

\* The cache-creation step with its else-if branch left out (only the first
\* checkpoint is ever created): a slip the boundary-count claim must notice.
CacheOutcomesFirstOnly(data, cache) ==
    IF Len(data) = m_cacheGap
    THEN {[fault |-> FALSE,
           cache |-> Append(cache, FoldRange(data[1], data, 1, Len(data))),
           limit |-> Len(cache) + 1]}
    ELSE {[fault |-> FALSE, cache |-> cache, limit |-> m_cacheLimit]}

\* emplaceBack, lines 112-130: what the cache-creation step can leave, as a
\* set of [fault, cache, limit], from the data and cache it finds.
CacheOutcomes(data, cache) ==
    IF Len(data) = m_cacheGap
    THEN {[fault |-> FALSE,
           cache |-> Append(cache, FoldRange(data[1], data, 1, Len(data))),
           limit |-> Len(cache) + 1]}
    ELSE IF data # <<>> /\ Len(data) % m_cacheGap = 0
    THEN LET begin == IteratorPastCacheOf(cache, m_cacheLimit, m_dataLimit)
             \* m_cache.back(): of an empty deque it is undefined
             backs == IF cache # <<>> THEN {cache[Len(cache)]} ELSE Junk
         IN  IF begin > Len(data) THEN {Faulted}
             ELSE {[fault |-> FALSE,
                    cache |-> Append(cache, FoldRange(c, data, begin, Len(data))),
                    limit |-> Len(cache) + 1] : c \in backs}
                  \cup (IF cache = <<>> THEN {Faulted} ELSE {})
    ELSE {[fault |-> FALSE, cache |-> cache, limit |-> m_cacheLimit]}

\* The program stops inside operation name.
Fault(name) ==
    /\ fault' = TRUE
    /\ op' = name
    /\ ret' = NoRet
    /\ pre' = NoPre
    /\ UNCHANGED <<m_cacheGap, m_data, m_cache, m_dataLimit, m_cacheLimit,
                   m_underUndo, phase>>

\* emplaceBack(v), lines 101-136.
EmplaceBackCall(v) ==
    /\ LET cu   == IF m_underUndo THEN clearUndo
                   ELSE [ok |-> TRUE, data |-> m_data, cache |-> m_cache,
                         underUndo |-> m_underUndo]
           skip == m_underUndo /\ Len(cu.data) % m_cacheGap = 0
           outs == IF ~cu.ok THEN {Faulted}
                   ELSE IF skip
                   THEN {[fault |-> FALSE, cache |-> cu.cache, limit |-> m_cacheLimit]}
                   ELSE CacheOutcomes(cu.data, cu.cache)
       IN  \E o \in outs :
             IF o.fault
             THEN Fault("emplaceBack")
             ELSE /\ m_data' = Append(cu.data, v)
                  /\ m_dataLimit' = Len(cu.data) + 1
                  /\ m_cache' = o.cache
                  /\ m_cacheLimit' = o.limit
                  /\ m_underUndo' = cu.underUndo
                  /\ ret' = [b |-> FALSE, v |-> <<v>>]
                  /\ phase' = PhaseAfter("emplaceBack", FALSE)
                  /\ op' = "emplaceBack"
                  /\ pre' = NoPre
                  /\ UNCHANGED <<m_cacheGap, fault>>

\* emplaceBack(v), called while the history it leaves is within the bound.
EmplaceBack(v) ==
    /\ ~fault
    /\ (IF m_underUndo THEN Min(m_dataLimit, Len(m_data)) ELSE Len(m_data)) < LenBound
    /\ EmplaceBackCall(v)

\* undo() with lines 211-214 left out (m_cacheLimit is never moved back): a
\* slip the test's scenario must notice.
UndoReturnsKeepsCache ==
    /\ m_underUndo' = TRUE
    /\ IF m_dataLimit = 0
       THEN /\ ret' = [b |-> FALSE, v |-> <<>>]
            /\ phase' = PhaseAfter("undo", FALSE)
            /\ UNCHANGED <<m_dataLimit, m_cacheLimit>>
       ELSE /\ m_dataLimit' = m_dataLimit - 1
            /\ m_cacheLimit' = m_cacheLimit
            /\ ret' = [b |-> TRUE, v |-> <<>>]
            /\ phase' = PhaseAfter("undo", TRUE)
    /\ op' = "undo"
    /\ pre' = [h |-> m_dataLimit, k |-> getNumCaches]
    /\ UNCHANGED <<m_cacheGap, m_data, m_cache, fault>>

\* undo(), when it runs to its return.
UndoReturns ==
    /\ m_underUndo' = TRUE
    /\ LET distance == m_dataLimit
           onCache  == (distance % m_cacheGap) = 0
       IN  IF distance = 0
           THEN /\ ret' = [b |-> FALSE, v |-> <<>>]
                /\ phase' = PhaseAfter("undo", FALSE)
                /\ UNCHANGED <<m_dataLimit, m_cacheLimit>>
           ELSE /\ m_dataLimit' = m_dataLimit - 1
                /\ m_cacheLimit' = IF ~noCaches /\ onCache THEN m_cacheLimit - 1
                                   ELSE m_cacheLimit
                /\ ret' = [b |-> TRUE, v |-> <<>>]
                /\ phase' = PhaseAfter("undo", TRUE)
    /\ op' = "undo"
    /\ pre' = [h |-> m_dataLimit, k |-> getNumCaches]
    /\ UNCHANGED <<m_cacheGap, m_data, m_cache, fault>>

\* undo().  std::distance(m_data.begin(), m_dataLimit) and --m_dataLimit are
\* undefined while m_dataLimit is singular.
Undo ==
    /\ ~fault
    /\ \/ UndoReturns
       \/ m_data = <<>> /\ Fault("undo")

\* redo() with its first test (lines 225-227) left out: a slip the claim about
\* redo() outside undo mode must notice.
RedoReturnsNoGuard ==
    /\ LET atEnd    == m_dataLimit + 1 = Len(m_data)
           distance == m_dataLimit + 1
       IN  /\ m_underUndo' = (IF atEnd THEN FALSE ELSE m_underUndo)
           /\ m_dataLimit' = m_dataLimit + 1
           /\ m_cacheLimit' = IF m_cache # <<>> /\ distance % m_cacheGap = 0
                              THEN m_cacheLimit + 1 ELSE m_cacheLimit
           /\ ret' = [b |-> ~atEnd, v |-> <<>>]
    /\ phase' = PhaseAfter("redo", FALSE)
    /\ op' = "redo"
    /\ pre' = NoPre
    /\ UNCHANGED <<m_cacheGap, m_data, m_cache, fault>>

\* redo() that also drops the stored layers past the cursor it leaves: a slip
\* the claim that only emplaceBack adds or removes stored elements must notice.
RedoReturnsDropsTail ==
    /\ IF ~m_underUndo
       THEN /\ ret' = [b |-> FALSE, v |-> <<>>]
            /\ UNCHANGED <<m_data, m_dataLimit, m_cacheLimit, m_underUndo>>
       ELSE LET atEnd    == m_dataLimit + 1 = Len(m_data)
                distance == m_dataLimit + 1
            IN  /\ m_underUndo' = (IF atEnd THEN FALSE ELSE m_underUndo)
                /\ m_dataLimit' = m_dataLimit + 1
                /\ m_data' = SubSeq(m_data, 1, Min(distance, Len(m_data)))
                /\ m_cacheLimit' = IF m_cache # <<>> /\ distance % m_cacheGap = 0
                                   THEN m_cacheLimit + 1 ELSE m_cacheLimit
                /\ ret' = [b |-> ~atEnd, v |-> <<>>]
    /\ phase' = PhaseAfter("redo", FALSE)
    /\ op' = "redo"
    /\ pre' = NoPre
    /\ UNCHANGED <<m_cacheGap, m_cache, fault>>

\* redo(), when it runs to its return.
RedoReturns ==
    /\ IF ~m_underUndo
       THEN /\ ret' = [b |-> FALSE, v |-> <<>>]
            /\ UNCHANGED <<m_dataLimit, m_cacheLimit, m_underUndo>>
       ELSE LET atEnd    == m_dataLimit + 1 = Len(m_data)
                distance == m_dataLimit + 1
            IN  /\ m_underUndo' = (IF atEnd THEN FALSE ELSE m_underUndo)
                /\ m_dataLimit' = m_dataLimit + 1
                /\ m_cacheLimit' = IF m_cache # <<>> /\ distance % m_cacheGap = 0
                                   THEN m_cacheLimit + 1 ELSE m_cacheLimit
                /\ ret' = [b |-> ~atEnd, v |-> <<>>]
    /\ phase' = PhaseAfter("redo", FALSE)
    /\ op' = "redo"
    /\ pre' = NoPre
    /\ UNCHANGED <<m_cacheGap, m_data, m_cache, fault>>

\* redo().  ++m_dataLimit is not guarded: at end() (or singular) it is
\* undefined.
RedoCall ==
    \/ RedoReturns
    \/ m_underUndo /\ m_dataLimit >= Len(m_data) /\ Fault("redo")

\* redo().  The guard on LenBound only bounds the exploration of an iterator
\* that keeps moving past end().
Redo ==
    /\ ~fault
    /\ m_dataLimit <= LenBound
    /\ RedoCall

\* Whether position i (0-based) of deque d holds an element.
InRange(d, i) == 0 <= i /\ i < Len(d)

\* What *it can yield for the iterator at position i of deque d.
Deref(d, i) == IF InRange(d, i) THEN {d[i + 1]} ELSE Junk

\* m_data as the loops of reduceTo can read it up to m_dataLimit: the stored
\* elements, and any values at the positions past end().
ReadableData ==
    IF m_dataLimit <= Len(m_data) THEN {m_data}
    ELSE {m_data \o j : j \in [1..(m_dataLimit - Len(m_data)) -> Junk]}

\* reduceTo(value) with value = 0 on entry: the values it can leave in value.
reduceTo ==
    IF noCaches
    THEN {FoldRange(0, d, 0, m_dataLimit) : d \in ReadableData}
    ELSE {FoldRange(m_function(0, c), d, getIteratorPastCache, m_dataLimit) :
            c \in Deref(m_cache, m_cacheLimit - 1), d \in ReadableData}

\* Whether reduceTo reads outside a deque, or compares a singular m_dataLimit.
reduceToUndefined ==
    \/ m_data = <<>>
    \/ m_dataLimit > Len(m_data)
    \/ ~noCaches /\ ~InRange(m_cache, m_cacheLimit - 1)

\* getLastCache(): <<>> is nullptr.
getLastCache ==
    IF noCaches THEN {<<>>}
    ELSE {<<c>> : c \in Deref(m_cache, m_cacheLimit - 1)}

getLastCacheUndefined == ~noCaches /\ ~InRange(m_cache, m_cacheLimit - 1)

\* getLast()
getLast == {<<x>> : x \in Deref(m_data, m_dataLimit - 1)}

getLastUndefined == ~InRange(m_data, m_dataLimit - 1)

\* A const query: it returns one of results, or stops the program when what
\* it does is undefined.
Query(name, results, undefined) ==
    /\ ~fault
    /\ \/ /\ \E r \in results : ret' = [b |-> FALSE, v |-> r]
          /\ op' = name
          /\ pre' = NoPre
          /\ UNCHANGED <<m_cacheGap, m_data, m_cache, m_dataLimit, m_cacheLimit,
                         m_underUndo, fault, phase>>
       \/ undefined /\ Fault(name)

ReduceTo == Query("reduceTo", {<<s>> : s \in reduceTo}, reduceToUndefined)
GetLastCache == Query("getLastCache", getLastCache, getLastCacheUndefined)
GetLast == Query("getLast", getLast, getLastUndefined)

Next ==
    \/ \E v \in Layers : EmplaceBack(v)
    \/ Undo
    \/ Redo
    \/ ReduceTo
    \/ GetLastCache
    \/ GetLast

Spec == Init /\ [][Next]_vars


\* The object of tests/cached_resource_test.cpp: Traits<int>::cacheGap, and the
\* number of layers its loop pushes.
ScenarioGap == 3
ScenarioLayers == 10

\* sk::CachedResource<int, Traits<int>> res{ adder };
ScenarioInit == Init /\ m_cacheGap = ScenarioGap

\* for(int i = 0; i < 10; ++i) res.emplaceBack(i + 1);
ScenarioEmplaceBack ==
    /\ ~fault
    /\ phase = "appends"
    /\ Len(m_data) < ScenarioLayers
    /\ EmplaceBackCall(Len(m_data) + 1)

\* res.redo()
ScenarioRedo ==
    /\ ~fault
    /\ m_dataLimit <= ScenarioLayers
    /\ RedoCall

\* The test's layers pushed in its order, then its other calls (undo, redo,
\* reduceTo, getLast, getLastCache) in any order, the test's order among them.
ScenarioNext ==
    \/ ScenarioEmplaceBack
    \/ Undo
    \/ ScenarioRedo
    \/ ReduceTo
    \/ GetLastCache
    \/ GetLast

ScenarioSpec == ScenarioInit /\ [][ScenarioNext]_vars


\* The combiner-fold of the first n elements of d (n >= 1), seeded with the
\* first element as emplaceBack seeds a checkpoint.
FoldFrom(d, n) == FoldRange(d[1], d, 1, n)

\* C1. Reduction equivalence: once at least one layer has been appended, every
\* reduceTo(value) with value = 0 completes and leaves in value the fold of
\* m_data[0 .. historyCursor), whatever undo/redo/emplaceBack calls came before.
ReductionEquivalence ==
    (op = "reduceTo" /\ m_data # <<>>) =>
        /\ ~fault
        /\ historyCursor <= Len(m_data)
        /\ ret.v = <<FoldPrefix(0, m_data, historyCursor)>>

\* C2. 0 <= historyCursor <= history.size() in every reachable state.
HistoryCursorInRange ==
    0 <= historyCursor /\ historyCursor <= Len(m_data)

\* C3. 0 <= checkpointCursor <= checkpoints.size() in every reachable state,
\* so that getLastCache() refers to a stored checkpoint.
CheckpointCursorInRange ==
    0 <= checkpointCursor /\ checkpointCursor <= Len(m_cache)

\* C4. Checkpoint content: every checkpoint k < checkpointCursor exists, lies
\* within the valid prefix ((k+1)*gap <= historyCursor) and equals the fold of
\* m_data[0 .. (k+1)*gap).
CheckpointContent ==
    \A k \in 0..(checkpointCursor - 1) :
        /\ k < Len(m_cache)
        /\ (k + 1) * m_cacheGap <= historyCursor
        /\ historyCursor <= Len(m_data)
        /\ m_cache[k + 1] = FoldFrom(m_data, (k + 1) * m_cacheGap)


UndoRedoSymmetry ==
    [][(op = "undo" /\ ret.b /\ ~fault /\ m_data # <<>> /\ Redo) =>
          /\ ~fault'
          /\ historyCursor' = pre.h
          /\ checkpointCursor' = pre.k]_vars

\* The part of the state a caller can reach through the object.
object == <<m_data, m_cache, m_dataLimit, m_cacheLimit, m_underUndo>>

\* C7. Truncate-on-append: after N emplaceBack, k undo() that returned true
\* (1 <= k < N) and one emplaceBack(v), the call completed, getLast() is v,
\* m_underUndo is false, and every redo() before the next undo() returns
\* false and changes nothing.
TruncateOnAppend ==
    /\ [](fault => ~(phase = "undos" /\ op = "emplaceBack" /\ historyCursor >= 1))
    /\ [](phase = "trunc" /\ ~fault =>
            /\ ~m_underUndo
            /\ ~getLastUndefined
            /\ getLast = {<<m_data[Len(m_data)]>>}
            /\ (op = "emplaceBack" => getLast = {ret.v})
            /\ (op = "redo" => ~ret.b))
    /\ [][(phase = "trunc" /\ Redo) =>
            (~ret'.b /\ ~fault' /\ UNCHANGED object)]_vars

\* A truncating emplaceBack that kept a checkpoint, followed by a redo().
TruncateOnAppendWitness ==
    /\ phase = "trunc"
    /\ op = "redo"
    /\ ~ret.b
    /\ m_cache # <<>>
    /\ Len(m_data) < 2 * m_cacheGap

\* C8. End-of-redo signalling: after N emplaceBack and undo() calls down to
\* historyCursor = 0, every redo() of the run back up returns true while layers
\* are left to redo and false, clearing m_underUndo, when it reaches the end
\* of the history; it never steps past the end.  Claimed for every N >= 0.
EndOfRedoSignal ==
    (phase = "redos" /\ op = "redo" /\ ~fault) =>
        /\ historyCursor <= Len(m_data)
        /\ ret.b = (historyCursor < Len(m_data))
        /\ (~ret.b => ~m_underUndo)

\* C9. emplaceBack has no error condition: with at least one layer stored,
\* it never stops, its truncation never pops from a deque shorter than the
\* limit it pops down to, and when it creates a checkpoint by its else-if
\* branch there is a last checkpoint to copy.
AppendNeverFails ==
    m_data # <<>> =>
        /\ ~(fault /\ op = "emplaceBack")
        /\ (m_underUndo => clearUndo.ok)
        /\ (/\ ~m_underUndo
            /\ Len(m_data) # m_cacheGap
            /\ Len(m_data) % m_cacheGap = 0) => m_cache # <<>>

\* C10. undo() always completes and sets m_underUndo; at historyCursor = 0 it
\* returns false and leaves history, checkpoints and both cursors unchanged;
\* otherwise it returns true and decrements historyCursor by one.
UndoEffect ==
    [][Undo =>
          /\ ~fault'
          /\ m_underUndo'
          /\ IF historyCursor = 0
             THEN /\ ~ret'.b
                  /\ UNCHANGED <<m_data, m_cache>>
                  /\ historyCursor' = historyCursor
                  /\ checkpointCursor' = checkpointCursor
             ELSE /\ ret'.b
                  /\ historyCursor' = historyCursor - 1]_vars

\* C11. redo() called while m_underUndo is false returns false and changes
\* nothing: history, checkpoints, historyCursor, checkpointCursor and
\* m_underUndo are as before the call.
RedoOutsideUndo ==
    [][(~m_underUndo /\ Redo) =>
          /\ ~fault'
          /\ ~ret'.b
          /\ UNCHANGED object
          /\ historyCursor' = historyCursor
          /\ checkpointCursor' = checkpointCursor]_vars

\* A redo() that found m_underUndo false (every redo() of the pattern "trunc"
\* does), with layers and a checkpoint stored.
RedoOutsideUndoWitness ==
    /\ op = "redo"
    /\ phase = "trunc"
    /\ ~fault
    /\ ~m_underUndo
    /\ ~ret.b
    /\ historyCursor = Len(m_data)
    /\ checkpointCursor >= 1
    /\ checkpointCursor = Len(m_cache)

\* C12. Every redo() called while m_underUndo is true completes, advances
\* historyCursor by exactly one, returns true if and only if afterwards
\* historyCursor < history.size(), and returns false exactly when it landed on
\* historyCursor = history.size(), with m_underUndo cleared.
RedoReturnValue ==
    [][(m_underUndo /\ Redo) =>
          /\ ~fault'
          /\ historyCursor' = historyCursor + 1
          /\ ret'.b = (historyCursor' < Len(m_data))
          /\ (~ret'.b => historyCursor' = Len(m_data) /\ ~m_underUndo')]_vars

\* The test's ten layers are stored and the program runs.
ScenarioLoaded ==
    /\ ~fault
    /\ m_data = <<1, 2, 3, 4, 5, 6, 7, 8, 9, 10>>

\* C13. The test's scenario (gap 3, adder, layers 1..10 pushed in order).
\* With the ten layers stored, whatever undo()/redo() calls were made since:
\* at historyCursor 10 reduceTo yields 55, getLast() is 10 and getLastCache()
\* is 45; undo() from 10 returns true and leaves getLastCache() = 45, from 9
\* it returns true and gives 21; redo() from 8 returns true and gives 45 with
\* m_underUndo still true, from 9 it returns false, gives 45 and clears
\* m_underUndo; every undo() from 10 down to 1 returns true and steps back by
\* one, reaching getLastCache() = nullptr and getLast() = 1 at historyCursor 1
\* and reduceTo = 0 at historyCursor 0, where undo() returns false; every
\* redo() from 0 up to 8 returns true and the one from 9 returns false and
\* clears m_underUndo.  The test's call sequence is one path through these.
ScenarioTest ==
    /\ [](ScenarioLoaded /\ historyCursor = 10 =>
            /\ ~reduceToUndefined /\ reduceTo = {55}
            /\ ~getLastUndefined /\ getLast = {<<10>>}
            /\ ~getLastCacheUndefined /\ getLastCache = {<<45>>})
    /\ [][(ScenarioLoaded /\ Undo) =>
            /\ ~fault'
            /\ m_underUndo'
            /\ (historyCursor \in 1..10 =>
                    ret'.b /\ historyCursor' = historyCursor - 1)
            /\ (historyCursor = 10 =>
                    ~getLastCacheUndefined' /\ getLastCache' = {<<45>>})
            /\ (historyCursor = 9 =>
                    ~getLastCacheUndefined' /\ getLastCache' = {<<21>>})
            /\ (historyCursor = 2 =>
                    /\ ~getLastCacheUndefined' /\ getLastCache' = {<<>>}
                    /\ ~getLastUndefined' /\ getLast' = {<<1>>})
            /\ (historyCursor = 1 =>
                    ~reduceToUndefined' /\ reduceTo' = {0})
            /\ (historyCursor = 0 =>
                    ~ret'.b /\ historyCursor' = 0)]_vars
    /\ [][(ScenarioLoaded /\ m_underUndo /\ ScenarioRedo) =>
            /\ ~fault'
            /\ historyCursor' = historyCursor + 1
            /\ (historyCursor \in 0..8 => ret'.b /\ m_underUndo')
            /\ (historyCursor = 8 =>
                    ~getLastCacheUndefined' /\ getLastCache' = {<<45>>})
            /\ (historyCursor = 9 =>
                    /\ ~ret'.b /\ ~m_underUndo'
                    /\ ~getLastCacheUndefined' /\ getLastCache' = {<<45>>})]_vars

\* The end of the test: after undo() and redo() calls that left the pattern of
\* plain appends and undos, the redo() that lands on the tenth layer.
ScenarioTestWitness ==
    /\ ScenarioLoaded
    /\ phase = "other"
    /\ op = "redo"
    /\ ~ret.b
    /\ ~m_underUndo
    /\ historyCursor = 10
    /\ m_cache = <<6, 21, 45>>
    /\ checkpointCursor = 3

\* What N plain appends leave (N = Len(m_data) >= 1): the checkpoint cursor,
\* the last checkpoint and the result of reduceTo.
AppendedCheckpointCursor == (Len(m_data) - 1) \div m_cacheGap
AppendedLastCache ==
    IF AppendedCheckpointCursor = 0 THEN <<>>
    ELSE <<FoldFrom(m_data, AppendedCheckpointCursor * m_cacheGap)>>
AppendedReduction == FoldPrefix(0, m_data, Len(m_data))

\* C14. Full undo/redo round trip: after N >= 1 emplaceBack calls on a new
\* object, historyCursor, checkpointCursor, getLastCache() and reduceTo have
\* the values stated above, and after undo() calls down to historyCursor = 0
\* followed by N redo() calls they have them again.
FullRoundTrip ==
    (/\ m_data # <<>>
     /\ ~fault
     /\ historyCursor = Len(m_data)
     /\ phase \in {"appends", "redos"}) =>
        /\ checkpointCursor = AppendedCheckpointCursor
        /\ ~getLastCacheUndefined
        /\ getLastCache = {AppendedLastCache}
        /\ ~reduceToUndefined
        /\ reduceTo = {AppendedReduction}

\* C15. Bounded replay: in every state where the program runs, reduceTo
\* visits one checkpoint and at most gap layers: historyCursor -
\* checkpointCursor * gap <= gap (with checkpointCursor = 0: historyCursor <=
\* gap).
BoundedReplay ==
    (~fault /\ m_data # <<>>) =>
        historyCursor - checkpointCursor * m_cacheGap <= m_cacheGap

\* C16. Truncation special case: whenever emplaceBack runs with m_underUndo
\* true on a stored history and, after truncation, historyCursor (= the number
\* of layers kept) is a positive multiple of gap, so that cache creation is
\* skipped, the call completes and the checkpoint of that boundary is there:
\* as many checkpoints are stored as checkpointCursor says, that is
\* historyCursor / gap, and the last one is the fold of the layers kept.
TruncationKeepsBoundary ==
    [][(/\ m_underUndo
        /\ m_data # <<>>
        /\ historyCursor > 0
        /\ historyCursor % m_cacheGap = 0
        /\ \E v \in Layers : EmplaceBack(v)) =>
          /\ ~fault'
          /\ checkpointCursor' = historyCursor \div m_cacheGap
          /\ Len(m_cache') = checkpointCursor'
          /\ m_cache'[Len(m_cache')] = FoldFrom(m_data, historyCursor)]_vars

\* C17 as claimed. In every state where the program runs, m_underUndo is true
\* if and only if historyCursor < history.size().
UnderUndoIffBeforeEnd ==
    ~fault => (m_underUndo <=> historyCursor < Len(m_data))

\* C17 as amended. m_underUndo false implies historyCursor = history.size();
\* with at least one layer stored, m_underUndo is true if and only if
\* historyCursor < history.size().  (undo() sets m_underUndo on an empty
\* history too, where historyCursor = history.size() = 0.)
UnderUndoMeaning ==
    /\ ~m_underUndo => historyCursor = Len(m_data)
    /\ m_data # <<>> => (m_underUndo <=> historyCursor < Len(m_data))

\* In undo mode strictly inside a stored history, after an undo() and a redo().
UnderUndoWitness ==
    /\ ~fault
    /\ op = "redo"
    /\ ret.b
    /\ m_underUndo
    /\ 0 < historyCursor
    /\ historyCursor < Len(m_data)

\* C18. undo(), redo(), reduceTo, getLast() and getLastCache() never change
\* the length or the elements of m_data or of m_cache: undo()/redo() change
\* only the two cursors and m_underUndo, the queries change nothing, and a
\* step that adds or removes a stored element is an emplaceBack.
StoredElementsFrame ==
    [][/\ op' \in {"undo", "redo"} => UNCHANGED <<m_data, m_cache>>
       /\ op' \in {"reduceTo", "getLast", "getLastCache"} => UNCHANGED object
       /\ (m_data' # m_data \/ m_cache' # m_cache) => op' = "emplaceBack"]_vars

\* A redo() and then a query, inside a history that has a checkpoint, in
\* undo mode: layers and a checkpoint lie past the cursors and are still stored.
StoredElementsFrameWitness ==
    /\ ~fault
    /\ op = "reduceTo"
    /\ phase = "redos"
    /\ m_underUndo
    /\ 0 < historyCursor
    /\ historyCursor < Len(m_data)
    /\ checkpointCursor < Len(m_cache)

\* C19. Append post-state: every emplaceBack(v) on a stored history, from
\* historyCursor = c and checkpointCursor = k, completes and leaves m_data =
\* the first c layers followed by v, historyCursor = history.size() = c + 1,
\* m_underUndo false, the checkpoints below k unchanged and, when it was
\* called in undo mode, no checkpoint of the old ones at or after k.
AppendPostState ==
    [][(m_data # <<>> /\ \E v \in Layers : EmplaceBack(v)) =>
          /\ ~fault'
          /\ historyCursor <= Len(m_data)
          /\ m_data' = Append(SubSeq(m_data, 1, historyCursor), ret'.v[1])
          /\ historyCursor' = historyCursor + 1
          /\ historyCursor' = Len(m_data')
          /\ ~m_underUndo'
          /\ checkpointCursor <= Len(m_cache)
          /\ checkpointCursor <= Len(m_cache')
          /\ SubSeq(m_cache', 1, checkpointCursor) = SubSeq(m_cache, 1, checkpointCursor)
          /\ (m_underUndo => Len(m_cache') <= checkpointCursor + 1)]_vars

\* C20. In every state reachable by emplaceBack, undo() and redo() calls,
\* checkpointCursor * gap <= historyCursor, so the clamp of
\* getIteratorPastCache() always yields checkpointCursor * gap.
CheckpointBehindCursor ==
    /\ checkpointCursor * m_cacheGap <= historyCursor
    /\ getIteratorPastCache = checkpointCursor * m_cacheGap

\* The tight case, reached by a redo(): the cursor is on the boundary of the
\* last valid checkpoint, in undo mode.
CheckpointBehindCursorWitness ==
    /\ ~fault
    /\ op = "redo"
    /\ m_underUndo
    /\ checkpointCursor >= 1
    /\ checkpointCursor * m_cacheGap = historyCursor
    /\ historyCursor < Len(m_data)

====
